---- MODULE Spec2Model ----
(***************************************************************************)
(* MiniAGI agent loop (src/miniagi.py): build context, query the model,    *)
(* parse the response, optionally confirm with the user, execute the       *)
(* command, update the memory, repeat.                                     *)
(*                                                                         *)
(* Text is a sequence of strings.  Text that comes from outside the        *)
(* program (model responses, user input, handler output) is a sequence of  *)
(* one-character strings, so that len(), split(), replace() and the regex  *)
(* work on characters.  A string literal of the program ("ACTION\n",       *)
(* "Cmd: ", ...) is one element: the program never measures or scans it.   *)
(***************************************************************************)
EXTENDS Integers, Sequences, FiniteSets, TLC

\* ------------------------------------------------------------------ bounds
\* number of model responses one run is followed for: agent.predict is not
\* called again once it has returned MaxIter times
MaxIter == 2

\* --------------------------------------------------------- program constants
\* len(arg) < 64 / arg[:64]
AbbrevLen == 64
\* agent.remember(limit=32, ...)
Limit == 32

\* ------------------------------------------------------------ text helpers
Rep(c, n) == [i \in 1..n |-> c]

\* needle occurs in hay as a contiguous run of elements (Python: needle in hay)
Contains(hay, needle) ==
    \E i \in 1..(Len(hay) - Len(needle) + 1) :
        SubSeq(hay, i, i + Len(needle) - 1) = needle

IsPrefix(s, t) == Len(s) <= Len(t) /\ SubSeq(t, 1, Len(s)) = s

SetMin(S) == CHOOSE x \in S : \A y \in S : x <= y

\* "sep".join(lines)
RECURSIVE JoinWith(_, _)
JoinWith(lines, sep) ==
    IF lines = <<>> THEN <<>>
    ELSE IF Len(lines) = 1 THEN lines[1]
    ELSE lines[1] \o sep \o JoinWith(Tail(lines), sep)

\* str.split("\n"): the runs between newlines, always at least one line
RECURSIVE SplitFrom(_, _)
SplitFrom(s, i) ==
    LET nls == {k \in i..Len(s) : s[k] = "\n"}
    IN  IF nls = {} THEN <<SubSeq(s, i, Len(s))>>
        ELSE <<SubSeq(s, i, SetMin(nls) - 1)>> \o SplitFrom(s, SetMin(nls) + 1)

Split(s) == SplitFrom(s, 1)

\* "\n".join(lines)
Join(lines) == JoinWith(lines, <<"\n">>)

\* the backquote character, written as a name
Backquote == "BACKQUOTE"

\* arg.replace of three backquotes by "": left to right, non-overlapping
RECURSIVE RemoveFencesFrom(_, _)
RemoveFencesFrom(s, i) ==
    LET fences == {k \in i..(Len(s) - 2) :
                     s[k] = Backquote /\ s[k+1] = Backquote
                     /\ s[k+2] = Backquote}
    IN  IF fences = {} THEN SubSeq(s, i, Len(s))
        ELSE SubSeq(s, i, SetMin(fences) - 1)
             \o RemoveFencesFrom(s, SetMin(fences) + 3)

RemoveFences(s) == RemoveFencesFrom(s, 1)

\* s.replace("\n", "\\n"): every newline becomes backslash, n
EscapeNewlines(s) == JoinWith(Split(s), <<"\\", "n">>)

\* ------------------------------------------------- re.findall(PATTERN, line)
\* PATTERN = r'<(r|c)>(.*?)</(r|c)>'
OpenAt(line, k) ==
    /\ k + 2 <= Len(line)
    /\ line[k] = "<" /\ line[k+1] \in {"r", "c"} /\ line[k+2] = ">"

CloseAt(line, j) ==
    /\ j + 3 <= Len(line)
    /\ line[j] = "<" /\ line[j+1] = "/" /\ line[j+2] \in {"r", "c"}
    /\ line[j+3] = ">"

\* the matches from position i on, each <<open tag, content, close tag>>
RECURSIVE FindAllFrom(_, _)
FindAllFrom(line, i) ==
    LET starts == {k \in i..Len(line) :
                     OpenAt(line, k)
                     /\ \E j \in (k+3)..Len(line) : CloseAt(line, j)}
    IN  IF starts = {} THEN <<>>
        ELSE LET k == SetMin(starts)
                 j == SetMin({x \in (k+3)..Len(line) : CloseAt(line, x)})
             IN  << <<line[k+1], SubSeq(line, k+3, j-1), line[j+2]>> >>
                 \o FindAllFrom(line, j + 4)

FindAll(line) == FindAllFrom(line, 1)

\* ------------------------------------------------------- program literals
Str_done == <<"d","o","n","e">>
Str_execute_python == <<"e","x","e","c","u","t","e","_","p","y","t","h","o","n">>
Str_execute_shell == <<"e","x","e","c","u","t","e","_","s","h","e","l","l">>
Str_read_file == <<"r","e","a","d","_","f","i","l","e">>
Str_web_search == <<"w","e","b","_","s","e","a","r","c","h">>
Str_web_scrape == <<"w","e","b","_","s","c","r","a","p","e">>
Str_talk_to_user == <<"t","a","l","k","_","t","o","_","u","s","e","r">>

\* the commands that have a branch in the dispatch of lines 240-286
HandlerCommands ==
    {Str_execute_python, Str_execute_shell, Str_read_file, Str_web_search,
     Str_web_scrape}

\* lines 212-213
ParseFailObservation ==
    <<"This command was formatted incorrectly. Use the correct syntax using the <r> and <c> tags.">>

\* line 224
TalkObservation(input) == <<"The user responded with: ">> \o input \o <<".">>

\* lines 234-235: the literal is not an f-string, the braces stay as they are
DeclineObservation(input) ==
    <<"The user responded with: {user_input}\nTake this comment into consideration.">>

\* line 253
ShellObservation(out, errtext) ==
    <<"STDOUT:\n">> \o out \o <<"\nSTDERR:\n">> \o errtext

\* line 302
ErrorObservation(e) == <<"The command returned an error:\n">> \o e \o <<"\n">>

\* line 288 on a value that is not a str: str(e) of the TypeError
ConcatTypeError(type) ==
    <<"can only concatenate str (not \"", type, "\") to str">>

\* line 101
NewMemory(act, obs) ==
    <<"ACTION\n">> \o act \o <<"\nRESULT:\n">> \o obs \o <<"\n">>

\* lines 103-104: the text handed to summarizer.summarize
SummarizeInput(previous_summary, new_memory) ==
    previous_summary \o <<"\n">> \o new_memory

\* Memorize storing the entry twice
MemorizeTwice(mem, new_memory) == Append(Append(mem, new_memory), new_memory)

\* line 109: agent.memorize(new_memory) appends one entry to the agent's memory
Memorize(mem, new_memory) == Append(mem, new_memory)

\* lines 158-162: agent.remember(limit=32, sort_by_order=True, ...) without a
\* concept: the last `limit` entries, oldest first
Remember(mem) ==
    IF Len(mem) <= Limit THEN mem ELSE SubSeq(mem, Len(mem) - Limit + 1, Len(mem))

\* line 165
BuildContextText(summary, action_buffer) ==
    <<"HISTORY\n">> \o summary \o <<"\nPREV ACTIONS:\n">> \o action_buffer

\* line 217
Abbreviate(a) ==
    IF Len(a) < AbbrevLen THEN EscapeNewlines(a)
    ELSE EscapeNewlines(SubSeq(a, 1, AbbrevLen) \o <<".", ".", ".">>)

\* line 218 / 219
ActionText(th, cmd, a) ==
    th \o <<"\nCmd: ">> \o cmd \o <<", Arg: \"">> \o a \o <<"\"">>


\* ------------------------------------------------------ the response parser
\* line 194
ThoughtOf(matches) == matches[1][2]

\* CommandOf reading the last match instead of the second one
CommandOfLast(matches) == matches[Len(matches)][2]

\* line 195
CommandOf(matches) == matches[2][2]

\* lines 201-208.  Line 203 assigns the shortened list to a new name,
\* res_line, which nothing reads: the argument is built from res_lines.
ArgOf(res_lines) == RemoveFences(Join(Tail(res_lines)))

\* IsDone without the comparison of line 197
IsDoneNever(cmd) == FALSE

\* line 197
IsDone(cmd) == cmd = Str_done

\* lines 188-208: the outcome of the try block for one response text.
\*   status "fail0": IndexError at matches[0]; "fail1": IndexError at
\*   matches[1], after thought was assigned; "done": sys.exit(0) at line 199;
\*   "ok": the block completed.
ParseResponse(text) ==
    LET lines == Split(text)
        found == FindAll(lines[1])
        base == [status |-> "", res_lines |-> lines, matches |-> found, thought |-> <<>>,
                 command |-> <<>>, arg |-> <<>>]
    IN  IF Len(found) = 0
          THEN [base EXCEPT !.status = "fail0"]
        ELSE IF Len(found) = 1
          THEN [base EXCEPT !.status = "fail1", !.thought = ThoughtOf(found)]
        ELSE IF IsDone(CommandOf(found))
          THEN [base EXCEPT !.status = "done", !.thought = ThoughtOf(found),
                            !.command = CommandOf(found)]
        ELSE [base EXCEPT !.status = "ok", !.thought = ThoughtOf(found),
                          !.command = CommandOf(found), !.arg = ArgOf(lines)]

\* ------------------------------------------------------------------ inputs
Wrap(t, content) == <<"<", t, ">">> \o content \o <<"<", "/", t, ">">>
FirstLine(th, cmd) == Wrap("r", th) \o Wrap("c", cmd)
Resp(th, cmd, a) == FirstLine(th, cmd) \o <<"\n">> \o a

RespDone == FirstLine(<<"t">>, Str_done)
RespNoTags == <<"h", "i">>
RespOneTag == Wrap("r", <<"t">>)
RespEmpty == <<>>
\* the code between two fences of three backquotes
RespPython ==
    Resp(<<"t">>, Str_execute_python,
         Rep(Backquote, 3) \o <<"\n", "p", "\n", "q", "\n">> \o Rep(Backquote, 3))
RespShell == Resp(<<"t">>, Str_execute_shell, Rep("a", AbbrevLen))
RespTalk == Resp(<<"t">>, Str_talk_to_user, Rep("b", AbbrevLen + 1))
RespSearch == Resp(<<"t">>, Str_web_search, <<"q">>)
RespScrape == Resp(<<"t">>, Str_web_scrape, <<"u">>)
RespRead == Resp(<<"t">>, Str_read_file, <<"f">>)
RespUnknown == Resp(<<"t">>, <<"f", "l", "y">>, <<"x">>)
RespTwoPairs ==
    FirstLine(<<"t">>, Str_execute_shell) \o FirstLine(<<"v">>, Str_read_file)
    \o <<"\n">> \o <<"x">>

\* a valid action whose last line contains "done"
RespTrailingDone == Resp(<<"t">>, Str_talk_to_user, <<"h", "i", "\n">> \o Str_done)
\* the two tags in the other order: <c>t</c><r>done</r>
RespReversed == Wrap("c", <<"t">>) \o Wrap("r", Str_done)

\* the texts agent.predict may return
Responses ==
    {RespDone, RespNoTags, RespOneTag, RespEmpty, RespPython, RespShell,
     RespTalk, RespSearch, RespScrape, RespRead, RespUnknown, RespTwoPairs,
     RespTrailingDone, RespReversed}

\* what the user may type at input()
UserInputs == {<<>>, <<"n", "o">>}

\* str(e) of the exceptions a handler or a summarizer call may raise
ErrBoom == <<"b", "o", "o", "m">>
ErrContext == <<"maximum ", "context length", " exceeded">>
Errors == {ErrBoom, ErrContext}
\* the errors most handlers are given in the model
PlainErrors == {ErrBoom}

\* outcome of one update_memory call: "ok", or str(e) of what it raised
MemOutcomes == {<<"ok">>, ErrContext}

\* values of the name `observation`: Python str, list or None
StrVal(t) == [type |-> "str", val |-> t]
ListVal == [type |-> "list", val |-> <<>>]
NoneVal == [type |-> "NoneType", val |-> <<>>]

\* the summarizer is an uninterpreted function of the text it is given
Summarize(text) == <<"summarize(">> \o text \o <<")">>


\* value of handlerRan while no dispatch branch was entered
NoHandler == <<"none">>

\* lines 214, 225, 236, 290, 303: every call site is the bare statement
\* update_memory(...), so the summary it returns is dropped and the name
\* summarized_history keeps its value
SummaryAfterUpdate(previous_summary, new_summary) == previous_summary

\* lines 116-120, 180: a ThinkGPT object starts with an empty memory of its own
NewAgentMemory == <<>>

\* ------------------------------------------------------------------- state
VARIABLES
    PROMPT_USER,        \* line 44
    agent,              \* model name of the object bound to `agent`
    memory,             \* the entries memorized by the object bound to `agent`
    summarized_history, \* line 138
    context,            \* lines 135, 165
    response_text,      \* line 173
    res_lines, matches, \* lines 188, 192
    thought, command, arg,      \* lines 194, 195, 205-208
    observation,        \* line 137 and the handlers
    user_input,         \* lines 223, 231
    err,                \* str(e) of the exception caught at line 292
    pc,                 \* position in the loop; "exited" when the process ended
    exitCode, exitSite, \* process exit status and the statement that ended it
    n,                  \* responses received so far
    \* what happened since the last pass through line 157
    iterMem, iterSummary,       \* memory / summarized_history at line 157
    parsed,             \* "none", "fail", "done", "ok"
    handlerRan,         \* command of the dispatch branch entered, or NoHandler
    handlerRaised,      \* the handler itself raised
    asked,              \* input() was called
    summarizeCalls,     \* calls of summarizer.summarize made by update_memory
    memFailed,          \* some update_memory call raised
    outcome,            \* the path the iteration took
    hinted,             \* lines 294-299 printed the hint
    handlerArg,         \* the argument the handler was called with
    iterObs             \* `observation` at line 157

vars == <<PROMPT_USER, agent, memory, summarized_history, context,
          response_text, res_lines, matches, thought, command, arg, observation, user_input,
          err, pc, exitCode, exitSite, n, iterMem, iterSummary, parsed,
          handlerRan, handlerRaised, asked, summarizeCalls, memFailed, outcome,
          hinted, handlerArg, iterObs>>

config == <<PROMPT_USER>>
progVars == <<thought, command, arg, user_input, response_text,
             res_lines, matches>>
iterVars == <<err, iterMem, iterSummary, parsed, handlerRan, handlerRaised, asked,
              summarizeCalls, memFailed, outcome, hinted>>
exitVars == <<exitCode, exitSite>>
buildVars == <<iterObs>>

\* line 218
action == ActionText(thought, command, arg)
\* lines 217, 219
abbreviated_action == ActionText(thought, command, Abbreviate(arg))

\* lines 114-138: the state before the command line is looked at
Init ==
    /\ PROMPT_USER \in BOOLEAN
    /\ agent = "MODEL"
    /\ memory = NewAgentMemory
    /\ summarized_history = <<>>
    /\ context = <<"objective">>
    /\ response_text = <<>> /\ res_lines = <<>> /\ matches = <<>>
    /\ thought = <<>> /\ command = <<>> /\ arg = <<>>
    /\ observation = StrVal(<<>>)
    /\ user_input = <<>>
    /\ err = <<>>
    /\ pc = "start"
    /\ exitCode = -1 /\ exitSite = "none"
    /\ n = 0
    /\ iterMem = <<>> /\ iterSummary = <<>>
    /\ parsed = "none" /\ handlerRan = NoHandler /\ handlerRaised = FALSE
    /\ asked = FALSE /\ summarizeCalls = 0 /\ memFailed = FALSE
    /\ outcome = "none" /\ hinted = FALSE
    /\ handlerArg = <<>> /\ iterObs = StrVal(<<>>)

StartFrame ==
    UNCHANGED <<buildVars, handlerArg, config, agent, memory,
                summarized_history, context, progVars, observation, n, iterVars>>

\* lines 128-130: sys.argv does not hold exactly one argument
UsageExit ==
    /\ pc = "start"
    /\ pc' = "exited" /\ exitCode' = 0 /\ exitSite' = "usage"
    /\ StartFrame

\* lines 149-153: os.chdir raises FileNotFoundError
WorkDirMissing ==
    /\ pc = "start"
    /\ pc' = "exited" /\ exitCode' = 0 /\ exitSite' = "work_dir"
    /\ StartFrame

\* lines 149-150: os.chdir raises another OSError (NotADirectoryError,
\* PermissionError), which the except clause of line 151 does not name
ChdirRaises ==
    /\ pc = "start"
    /\ pc' = "exited" /\ exitCode' = 1 /\ exitSite' = "chdir"
    /\ StartFrame

\* lines 128-155: one argument and os.chdir returns
StartLoop ==
    /\ pc = "start"
    /\ pc' = "build"
    /\ UNCHANGED exitVars
    /\ StartFrame

\* lines 157-165
BuildContext ==
    /\ pc = "build"
    /\ context' = BuildContextText(summarized_history, Join(Remember(memory)))
    /\ pc' = "query"
    /\ iterMem' = memory /\ iterSummary' = summarized_history
    /\ parsed' = "none" /\ handlerRan' = NoHandler /\ handlerRaised' = FALSE
    /\ asked' = FALSE /\ summarizeCalls' = 0 /\ memFailed' = FALSE
    /\ outcome' = "none" /\ hinted' = FALSE /\ err' = <<>>
    /\ handlerArg' = <<>> /\ iterObs' = observation
    /\ UNCHANGED <<config, agent, memory, summarized_history, progVars,
                   observation, exitVars, n>>

\* line 173: agent.predict returns a text
PredictReturns ==
    /\ pc = "query"
    /\ n < MaxIter
    /\ \E r \in Responses : response_text' = r
    /\ n' = n + 1
    /\ pc' = "parse"
    /\ UNCHANGED <<buildVars, handlerArg, config, agent, memory, summarized_history, context, thought,
                   command, arg, observation, user_input, res_lines, matches,
                   exitVars, iterVars>>

\* lines 177-181: InvalidRequestError whose text contains 'gpt-4'
PredictFallback ==
    /\ pc = "query"
    /\ n < MaxIter
    /\ agent' = "gpt-3.5-turbo"
    /\ memory' = NewAgentMemory
    /\ pc' = "build"
    /\ UNCHANGED <<buildVars, handlerArg, config, summarized_history, context, progVars, observation,
                   exitVars, n, iterVars>>

\* lines 177, 182-183: any other InvalidRequestError
PredictInvalidRequest ==
    /\ pc = "query"
    /\ n < MaxIter
    /\ pc' = "exited" /\ exitCode' = 0 /\ exitSite' = "api_error"
    /\ UNCHANGED <<buildVars, handlerArg, config, agent, memory, summarized_history, context,
                   progVars, observation, n, iterVars>>

\* line 173: an exception that is not an InvalidRequestError is not caught
PredictRaises ==
    /\ pc = "query"
    /\ n < MaxIter
    /\ pc' = "exited" /\ exitCode' = 1 /\ exitSite' = "predict"
    /\ UNCHANGED <<buildVars, handlerArg, config, agent, memory, summarized_history, context,
                   progVars, observation, n, iterVars>>

\* update_memory(agent, act, obs, summarized_history) at a call site that no
\* try block protects, followed by `continue`; m is the outcome of the call
RecordAndContinue(site, act, obs, m, oc) ==
    /\ observation' = StrVal(obs)
    /\ summarizeCalls' = summarizeCalls + 1
    /\ outcome' = oc
    /\ IF m = <<"ok">>
       THEN /\ memory' = Memorize(memory, NewMemory(act, obs))
            /\ summarized_history' =
                 SummaryAfterUpdate(summarized_history,
                     Summarize(SummarizeInput(summarized_history,
                                              NewMemory(act, obs))))
            /\ pc' = "build"
            /\ UNCHANGED <<exitVars, memFailed>>
       ELSE /\ memFailed' = TRUE
            /\ pc' = "exited" /\ exitCode' = 1 /\ exitSite' = site
            /\ UNCHANGED <<memory, summarized_history>>

\* lines 188-199: the command is `done`
ParseDone ==
    /\ pc = "parse"
    /\ LET p == ParseResponse(response_text)
       IN  /\ p.status = "done"
           /\ res_lines' = p.res_lines /\ matches' = p.matches
           /\ thought' = p.thought /\ command' = p.command
    /\ parsed' = "done"
    /\ pc' = "exited" /\ exitCode' = 0 /\ exitSite' = "done"
    /\ UNCHANGED <<buildVars, handlerArg, config, agent, memory, summarized_history, context,
                   response_text, arg, observation, user_input, err, n, iterMem, iterSummary, handlerRan, handlerRaised,
                   asked, summarizeCalls, memFailed, outcome, hinted>>

\* lines 188-195, 210-215: IndexError on the match list
ParseFail ==
    /\ pc = "parse"
    /\ LET p == ParseResponse(response_text)
       IN  /\ p.status \in {"fail0", "fail1"}
           /\ res_lines' = p.res_lines /\ matches' = p.matches
           /\ thought' = IF p.status = "fail1" THEN p.thought ELSE thought
           /\ \E m \in MemOutcomes :
                RecordAndContinue("update_memory:214", p.res_lines[1],
                                  ParseFailObservation, m, "parsefail")
    /\ parsed' = "fail"
    /\ UNCHANGED <<buildVars, handlerArg, config, agent, context, response_text, command, arg,
                   user_input, err, n, iterMem, iterSummary,
                   handlerRan, handlerRaised, asked, hinted>>

\* lines 188-208, 217-219: the try block completes
ParseOk ==
    /\ pc = "parse"
    /\ LET p == ParseResponse(response_text)
       IN  /\ p.status = "ok"
           /\ res_lines' = p.res_lines /\ matches' = p.matches
           /\ thought' = p.thought /\ command' = p.command /\ arg' = p.arg
    /\ parsed' = "ok"
    /\ pc' = "dispatch"
    /\ UNCHANGED <<buildVars, handlerArg, config, agent, memory, summarized_history, context,
                   response_text, observation, user_input, err, exitVars, n, iterMem, iterSummary, handlerRan, handlerRaised,
                   asked, summarizeCalls, memFailed, outcome, hinted>>

\* lines 221-226
TalkToUser ==
    /\ pc = "dispatch"
    /\ command = Str_talk_to_user
    /\ \E inp \in UserInputs, m \in MemOutcomes :
         /\ user_input' = inp
         /\ RecordAndContinue("update_memory:225", abbreviated_action,
                              TalkObservation(inp), m, "talk")
    /\ asked' = TRUE
    /\ UNCHANGED <<buildVars, handlerArg, config, agent, context, response_text, res_lines, matches, thought, command,
                   arg, err, n, iterMem, iterSummary, parsed,
                   handlerRan, handlerRaised, hinted>>

\* lines 228-237: the user types feedback
ConfirmDecline ==
    /\ pc = "dispatch"
    /\ command # Str_talk_to_user
    /\ PROMPT_USER
    /\ \E inp \in UserInputs, m \in MemOutcomes :
         /\ Len(inp) > 0
         /\ user_input' = inp
         /\ RecordAndContinue("update_memory:236", abbreviated_action,
                              DeclineObservation(inp), m, "declined")
    /\ asked' = TRUE
    /\ UNCHANGED <<buildVars, handlerArg, config, agent, context, response_text, res_lines, matches, thought, command,
                   arg, err, n, iterMem, iterSummary, parsed,
                   handlerRan, handlerRaised, hinted>>

\* lines 228-233: the user presses enter
ConfirmAccept ==
    /\ pc = "dispatch"
    /\ command # Str_talk_to_user
    /\ PROMPT_USER
    /\ \E inp \in UserInputs :
         /\ Len(inp) = 0
         /\ user_input' = inp
    /\ asked' = TRUE
    /\ pc' = "execute"
    /\ UNCHANGED <<buildVars, handlerArg, config, agent, memory, summarized_history, context,
                   response_text, res_lines, matches, thought, command, arg, observation, err,
                   exitVars, n, iterMem, iterSummary, parsed,
                   handlerRan, handlerRaised, summarizeCalls, memFailed,
                   outcome, hinted>>

\* lines 228-230: the gate is switched off
NoConfirm ==
    /\ pc = "dispatch"
    /\ command # Str_talk_to_user
    /\ ~PROMPT_USER
    /\ pc' = "execute"
    /\ UNCHANGED <<buildVars, handlerArg, config, agent, memory, summarized_history, context,
                   progVars, observation, exitVars, n, iterVars>>


\* ---------------------------------------------------------------- handlers
\* what a handler call may do: return one of `values`, or raise one of
\* `errors`
HandlerOutcomes(values, errors) ==
    {[raised |-> FALSE, val |-> v, e |-> <<>>] : v \in values}
    \cup {[raised |-> TRUE, val |-> NoneVal, e |-> x] : x \in errors}

\* lines 241-244: the captured standard output
PythonResults == {StrVal(<<"o">>)}

\* lines 246-253
ShellResults ==
    {StrVal(ShellObservation(<<>>, <<"e">>))}

\* line 256: ddg returns a list of results or None
SearchResults == {ListVal, NoneVal}

\* lines 265-273, 279-282: summarizer.chunked_summarize of the content
ChunkedSummarize(content) == <<"chunked_summarize(">> \o content \o <<")">>
ScrapeResults == {StrVal(ChunkedSummarize(<<"w">>))}
ReadResults == {StrVal(ChunkedSummarize(<<"c">>))}

\* lines 243, 246, 256, 261, 278: every handler is called with `arg`, not
\* with the `_arg` of line 217
HandlerArgumentAbbreviated(full, abbreviated) == abbreviated
HandlerArgument(full, abbreviated) == full

\* line 293
IsContextLengthError(e) == Contains(e, <<"context length">>)

\* lines 239-303 around one dispatch branch h whose handler did r:
\* the print of line 288, update_memory at line 290 (outcome m1), and the
\* except block with update_memory at line 303 (outcome m2)
ExecTail(h, r, m1, m2) ==
    LET obs1 == IF r.raised THEN observation ELSE r.val
        printRaises == ~r.raised /\ obs1.type # "str"
        update1 == ~r.raised /\ ~printRaises
        update1Raises == update1 /\ m1 # <<"ok">>
        caught == r.raised \/ printRaises \/ update1Raises
        e == IF r.raised THEN r.e
             ELSE IF printRaises THEN ConcatTypeError(obs1.type)
             ELSE m1
        obs2 == ErrorObservation(e)
    IN  /\ handlerRan' = h
        /\ handlerRaised' = r.raised
        /\ handlerArg' = IF h = NoHandler THEN handlerArg
                         ELSE HandlerArgument(arg, Abbreviate(arg))
        /\ IF ~caught
           THEN /\ observation' = obs1
                /\ memory' = Memorize(memory, NewMemory(action, obs1.val))
                /\ summarized_history' =
                     SummaryAfterUpdate(summarized_history,
                         Summarize(SummarizeInput(summarized_history,
                                       NewMemory(action, obs1.val))))
                /\ summarizeCalls' = summarizeCalls + 1
                /\ outcome' = "executed"
                /\ pc' = "build"
                /\ UNCHANGED <<err, hinted, memFailed, exitVars>>
           ELSE /\ err' = e
                /\ hinted' = IsContextLengthError(e)
                /\ observation' = StrVal(obs2)
                /\ summarizeCalls' =
                     summarizeCalls + (IF update1 THEN 2 ELSE 1)
                /\ outcome' = "execfail"
                /\ IF m2 = <<"ok">>
                   THEN /\ memory' = Memorize(memory, NewMemory(action, obs2))
                        /\ summarized_history' =
                             SummaryAfterUpdate(summarized_history,
                                 Summarize(SummarizeInput(summarized_history,
                                               NewMemory(action, obs2))))
                        /\ memFailed' = update1Raises
                        /\ pc' = "build"
                        /\ UNCHANGED exitVars
                   ELSE /\ memFailed' = TRUE
                        /\ pc' = "exited" /\ exitCode' = 1
                        /\ exitSite' = "update_memory:303"
                        /\ UNCHANGED <<memory, summarized_history>>

ExecFrame ==
    UNCHANGED <<buildVars, config, agent, context, response_text, res_lines, matches, thought, command, arg,
                user_input, n, iterMem, iterSummary, parsed, asked>>

\* lines 240-244
ExecutePython ==
    /\ pc = "execute"
    /\ command = Str_execute_python
    /\ \E r \in HandlerOutcomes(PythonResults, Errors), m1 \in MemOutcomes,
          m2 \in MemOutcomes : ExecTail(Str_execute_python, r, m1, m2)
    /\ ExecFrame

\* lines 245-253
ExecuteShell ==
    /\ pc = "execute"
    /\ command = Str_execute_shell
    /\ \E r \in HandlerOutcomes(ShellResults, PlainErrors), m1 \in MemOutcomes,
          m2 \in MemOutcomes : ExecTail(Str_execute_shell, r, m1, m2)
    /\ ExecFrame

\* lines 254-259
WebSearch ==
    /\ pc = "execute"
    /\ command = Str_web_search
    /\ \E r \in HandlerOutcomes(SearchResults, PlainErrors), m1 \in MemOutcomes,
          m2 \in MemOutcomes : ExecTail(Str_web_search, r, m1, m2)
    /\ ExecFrame

\* lines 260-275
WebScrape ==
    /\ pc = "execute"
    /\ command = Str_web_scrape
    /\ \E r \in HandlerOutcomes(ScrapeResults, PlainErrors), m1 \in MemOutcomes,
          m2 \in MemOutcomes : ExecTail(Str_web_scrape, r, m1, m2)
    /\ ExecFrame

\* lines 276-283
ReadFile ==
    /\ pc = "execute"
    /\ command = Str_read_file
    /\ \E r \in HandlerOutcomes(ReadResults, PlainErrors), m1 \in MemOutcomes,
          m2 \in MemOutcomes : ExecTail(Str_read_file, r, m1, m2)
    /\ ExecFrame

\* lines 240-287: no branch of the if/elif chain assigns `observation`, which
\* keeps the value the previous iteration left in it
ObservationWithoutBranchEmpty(previous) == StrVal(<<>>)
ObservationWithoutBranch(previous) == previous

\* lines 240-290 when no branch matches.  (The branch of line 284 cannot be
\* entered: `done` left the process at line 199.)
NoBranch ==
    /\ pc = "execute"
    /\ command \notin HandlerCommands
    /\ \E m1 \in MemOutcomes, m2 \in MemOutcomes :
         ExecTail(NoHandler,
                  [raised |-> FALSE, val |-> ObservationWithoutBranch(observation),
                   e |-> <<>>],
                  m1, m2)
    /\ ExecFrame

Next ==
    \/ UsageExit
    \/ WorkDirMissing
    \/ ChdirRaises
    \/ StartLoop
    \/ BuildContext
    \/ PredictReturns
    \/ PredictFallback
    \/ PredictInvalidRequest
    \/ PredictRaises
    \/ ParseDone
    \/ ParseFail
    \/ ParseOk
    \/ TalkToUser
    \/ ConfirmDecline
    \/ ConfirmAccept
    \/ NoConfirm
    \/ ExecutePython
    \/ ExecuteShell
    \/ WebSearch
    \/ WebScrape
    \/ ReadFile
    \/ NoBranch

Spec == Init /\ [][Next]_vars

TypeOK ==
    /\ pc \in {"start", "build", "query", "parse", "dispatch", "execute", "exited"}
    /\ observation.type \in {"str", "list", "NoneType"}
    /\ n \in 0..MaxIter


\* ------------------------------------------------------------------ claims
\* the tag matches on the first line of the current response
CurrentMatches == matches
\* the first line of the current response
CurrentFirstLine == res_lines[1]
\* the parse step of this iteration has run
ParseStepDone == parsed # "none"
\* an iteration that received a response has run to the end of the loop body
IterationCompleted == pc = "build" /\ outcome # "none"
Last(s) == s[Len(s)]

\* C1: whenever the command parsed from the response is `done`, the process
\* has terminated (exit code 0) in that iteration with no handler run, no
\* input() call, no summarizer call, and memory and summary as they were at
\* the start of the iteration.
C1_DoneTerminatesUntouched ==
    (ParseStepDone /\ Len(CurrentMatches) >= 2
       /\ CommandOf(CurrentMatches) = Str_done)
    => /\ pc = "exited" /\ exitSite = "done" /\ exitCode = 0
       /\ handlerRan = NoHandler
       /\ ~asked
       /\ summarizeCalls = 0
       /\ memory = iterMem
       /\ summarized_history = iterSummary

C1_Witness ==
    /\ pc = "exited" /\ exitSite = "done"
    /\ PROMPT_USER
    /\ Len(memory) > 0
    /\ CommandOf(CurrentMatches) = Str_done

\* C2: an iteration that received a non-done response and in which no
\* update_memory call raised has appended exactly one entry to the memory by
\* the time the loop is back at line 157.
C2_ExactlyOneRecord ==
    (IterationCompleted /\ ~memFailed)
    => /\ Len(memory) = Len(iterMem) + 1
       /\ IsPrefix(iterMem, memory)

C2_Witness ==
    /\ IterationCompleted /\ ~memFailed
    /\ outcome = "execfail"
    /\ Len(iterMem) = 1 /\ Len(memory) = 2

\* C3: after every iteration that updated the memory, the running summary
\* that the next context is built from is the summarizer's output for the
\* previous summary plus the entry of that iteration.
C3_SummaryReplaced ==
    (IterationCompleted /\ ~memFailed)
    => summarized_history =
         Summarize(SummarizeInput(iterSummary, Last(memory)))

\* C4: the memory read at line 158 only grows: every step leaves the old
\* entries in place as a prefix of the new ones.
C4_HistoryMonotonic == [][IsPrefix(memory, memory')]_vars

\* C5: a response whose first line has fewer than two tag matches takes the
\* parse-failure path: no handler, one entry with the raw first line and the
\* corrective text, and the loop is back at line 157.
C5_ParseFailureRecorded ==
    (ParseStepDone /\ Len(CurrentMatches) < 2)
    => /\ parsed = "fail"
       /\ handlerRan = NoHandler
       /\ pc = "build"
       /\ memory = Append(iterMem,
                          NewMemory(CurrentFirstLine, ParseFailObservation))

\* C6: once started, the loop ends only through `done` or a failure of the
\* model query; no failure in parsing, in a handler or in update_memory ends it.
C6_OnlyDoneOrBackendExit ==
    pc = "exited"
    => exitSite \in {"usage", "work_dir", "chdir", "done", "api_error", "predict"}

\* C7: when a handler raised, the exception was caught, exactly one entry
\* with the full action text and an observation containing the error text
\* was appended, and the loop is back at line 157.
C7_HandlerErrorRecorded ==
    handlerRaised
    => /\ pc = "build"
       /\ Contains(observation.val, err)
       /\ memory = Append(iterMem, NewMemory(action, observation.val))

\* C8: with the gate enabled and a command other than talk_to_user, non-empty
\* feedback means no handler ran and the recorded observation contains the
\* feedback text; blank input means the action goes to execution.
C8_FeedbackBecomesObservation ==
    (PROMPT_USER /\ asked /\ parsed = "ok" /\ command # Str_talk_to_user)
    => IF Len(user_input) > 0
       THEN /\ handlerRan = NoHandler
            /\ outcome = "declined"
            /\ (pc = "build"
                 => /\ Contains(observation.val, user_input)
                    /\ memory = Append(iterMem,
                          NewMemory(abbreviated_action, observation.val)))
       ELSE pc = "execute" \/ outcome \in {"executed", "execfail"}

\* C9: every entry appended for a successfully parsed action starts with the
\* action rendered with its full argument text.
C9_FullActionStored ==
    (IterationCompleted /\ parsed = "ok" /\ Len(memory) = Len(iterMem) + 1)
    => IsPrefix(<<"ACTION\n">> \o action \o <<"\nRESULT:\n">>, Last(memory))

\* C10 as stated: a response with more than one tag pair on its first line
\* takes the parse-failure path and none of its commands is executed.
C10_MultiplePairsRejected ==
    (ParseStepDone /\ Len(CurrentMatches) >= 4)
    => parsed = "fail" /\ handlerRan = NoHandler

\* C10 as amended: a response with more than one tag pair on its first line
\* is accepted; reasoning and command are the first two matches and only the
\* command of the first pair can reach a handler.
C10_FirstPairHonored ==
    (ParseStepDone /\ Len(CurrentMatches) >= 4)
    => /\ parsed \in {"ok", "done"}
       /\ thought = CurrentMatches[1][2]
       /\ command = CurrentMatches[2][2]
       /\ handlerRan \in {NoHandler, CurrentMatches[2][2]}

C10_Witness ==
    /\ IterationCompleted
    /\ Len(CurrentMatches) >= 4
    /\ CurrentMatches[4][2] = Str_read_file
    /\ handlerRan = Str_execute_shell
    /\ outcome = "executed"


\* the first line is exactly <r>X</r><c>Y</c> for the two matches X and Y
WellFormedFirstLine ==
    /\ Len(CurrentMatches) = 2
    /\ CurrentMatches[1][1] = "r" /\ CurrentMatches[1][3] = "r"
    /\ CurrentMatches[2][1] = "c" /\ CurrentMatches[2][3] = "c"
    /\ CurrentFirstLine =
         Wrap("r", CurrentMatches[1][2]) \o Wrap("c", CurrentMatches[2][2])

\* the text after the first newline of the response
RestOfResponse ==
    SubSeq(response_text, Len(CurrentFirstLine) + 2, Len(response_text))

NotBackquote(c) == c # Backquote

\* `a` is `raw` with every fence of three backquotes taken out
FencesRemoved(raw, a) ==
    /\ ~Contains(a, Rep(Backquote, 3))
    /\ SelectSeq(a, NotBackquote) = SelectSeq(raw, NotBackquote)
    /\ Len(a) <= Len(raw)
    /\ (Len(raw) - Len(a)) % 3 = 0

\* C11: for a response whose first line is <r>X</r><c>Y</c> with Y not `done`,
\* followed by further lines the last of which does not contain "done", the
\* parser yields reasoning X, command Y and as argument the text after the
\* first line with every fence of three backquotes removed; a handler that
\* runs is called with that full argument.
C11_ParsedAsWritten ==
    (parsed = "ok" /\ WellFormedFirstLine /\ Len(res_lines) >= 2
       /\ ~Contains(Last(res_lines), Str_done))
    => /\ thought = CurrentMatches[1][2]
       /\ command = CurrentMatches[2][2]
       /\ FencesRemoved(RestOfResponse, arg)
       /\ (handlerRan # NoHandler => handlerArg = arg)

C11_Witness ==
    /\ parsed = "ok" /\ WellFormedFirstLine
    /\ ~Contains(Last(res_lines), Str_done)
    /\ Contains(response_text, Rep(Backquote, 3))
    /\ handlerRan = Str_execute_python
    /\ outcome = "executed"
    /\ handlerArg = arg
    /\ Abbreviate(arg) # arg


\* C12: when the last line of a response with a valid first line and a command
\* other than `done` contains "done", that line is dropped: the argument is
\* the lines between the first and the last one.
C12_TrailingDoneDropped ==
    (parsed = "ok" /\ Len(res_lines) >= 2 /\ Contains(Last(res_lines), Str_done))
    => arg = RemoveFences(Join(SubSeq(res_lines, 2, Len(res_lines) - 1)))


\* C13: a web_search whose search call returns without raising, whatever it
\* returns, completes on the normal path: no exception is caught and the record
\* appended carries the search result, not "The command returned an error".
C13_SearchResultNotAnError ==
    (handlerRan = Str_web_search /\ ~handlerRaised)
    => /\ outcome = "executed"
       /\ err = <<>>
       /\ ~IsPrefix(<<"The command returned an error:\n">>, observation.val)


\* C14: once the command parsed is talk_to_user and the dispatch has acted, the
\* loop has asked the user, appended one record whose observation wraps the
\* reply as "The user responded with: <reply>", entered no handler and is back
\* at the top of the loop.
C14_TalkRecordsReply ==
    (parsed = "ok" /\ command = Str_talk_to_user /\ pc # "dispatch")
    => /\ pc = "build"
       /\ asked /\ outcome = "talk" /\ handlerRan = NoHandler
       /\ observation.val = TalkObservation(user_input)
       /\ memory = Append(iterMem,
                       NewMemory(abbreviated_action, TalkObservation(user_input)))


\* C15: every way the process ends gives exit code 0.
C15_EveryExitIsZero ==
    pc = "exited" => exitCode = 0


\* the commands the loop knows
SupportedCommands == HandlerCommands \union {Str_talk_to_user, Str_done}

\* the dispatch of lines 239-303 was reached with a command it does not know
UnsupportedDispatched ==
    /\ parsed = "ok"
    /\ command \notin SupportedCommands
    /\ outcome \in {"executed", "execfail"}

\* C17 as stated: a command that is none of the seven supported ones leaves the
\* history and the summary as they were and causes no summarizer call.
C17_UnsupportedIsNoOp ==
    UnsupportedDispatched
    => /\ handlerRan = NoHandler
       /\ memory = iterMem /\ summarized_history = iterSummary
       /\ summarizeCalls = 0

\* C17 as amended: a command that is none of the seven supported ones enters
\* no handler and assigns no observation, yet update_memory is called with
\* the full action and the observation of the previous iteration: when the
\* call returns, one entry with that stale observation has been appended;
\* when it raises, the error text is the observation handed to line 303.
\* The summary keeps its value.
C17_UnsupportedRecordsStale ==
    UnsupportedDispatched
    => /\ handlerRan = NoHandler /\ ~handlerRaised
       /\ summarizeCalls >= 1
       /\ summarized_history = iterSummary
       /\ outcome = "executed"
            => /\ observation = iterObs
               /\ memory = Append(iterMem,
                      <<"ACTION\n">> \o action \o <<"\nRESULT:\n">>
                          \o iterObs.val \o <<"\n">>)
       /\ outcome = "execfail"
            => /\ observation.val = ErrorObservation(err)
               /\ pc = "build"
                    => memory = Append(iterMem,
                                       NewMemory(action, ErrorObservation(err)))

C17_Witness ==
    /\ UnsupportedDispatched
    /\ outcome = "executed"
    /\ iterObs.val # <<>>
    /\ Len(memory) = 2
    /\ Contains(Last(memory), iterObs.val)


\* C18: once an action is parsed, the argument shown in the abbreviated action
\* is the argument with its newlines escaped when it has at most AbbrevLen
\* characters, and its first AbbrevLen characters, newlines escaped, followed
\* by an ellipsis only when it has more.
C18_EllipsisOnlyWhenLonger ==
    parsed = "ok"
    => abbreviated_action =
         ActionText(thought, command,
            IF Len(arg) <= AbbrevLen
            THEN EscapeNewlines(arg)
            ELSE EscapeNewlines(SubSeq(arg, 1, AbbrevLen)) \o <<".", ".", ".">>)


\* C19: whenever parsing succeeds, the reasoning is the content of a segment
\* opened by <r> and closed by </r> and the command the content of a segment
\* opened by <c> and closed by </c>.
C19_ProperlyPaired ==
    parsed \in {"ok", "done"}
    => /\ CurrentMatches[1] = <<"r", thought, "r">>
       /\ CurrentMatches[2] = <<"c", command, "c">>


\* C20: the agent is downgraded at most once: while the agent is the fallback
\* model, no failure of the model query leads back to the top of the loop.
C20_NoSecondDowngrade ==
    [][~(agent = "gpt-3.5-turbo" /\ pc = "query" /\ pc' = "build")]_vars

====
